---------------------------- MODULE Spec2Model ----------------------------
(***************************************************************************)
(* Partition-aware ingestion engine of binance-public-data                 *)
(* (database_scripts/database_config.py, database_scripts/data_importer.py)*)
(*                                                                         *)
(* Time.  The program keeps event times as epoch milliseconds.  The model  *)
(* keeps every instant as a whole number of HOURS since the epoch (one     *)
(* unit = 3,600,000 ms), so that the values fit the model checker's        *)
(* integers; every constant of the code that is a number of milliseconds   *)
(* is divided by 3,600,000 and rounded down.                               *)
(*                                                                         *)
(* Store.  The relational store is PostgreSQL reached through psycopg2     *)
(* with autocommit off: the first statement on a connection opens a        *)
(* transaction; an INSERT holds a ROW EXCLUSIVE lock on the parent table   *)
(* until the transaction ends; CREATE TABLE .. PARTITION OF and DROP TABLE *)
(* of a partition need an ACCESS EXCLUSIVE lock on the parent; a failed    *)
(* statement aborts the transaction, releases its locks, discards its      *)
(* uncommitted rows, and every later statement on that connection fails    *)
(* until it is rolled back.                                                *)
(***************************************************************************)
EXTENDS Integers, Sequences, FiniteSets, TLC

\* ------------------------------------------------------------------------
\* Bounds of the model
\* ------------------------------------------------------------------------
MaxRows == 2        \* longest file of the concurrent and the one-worker runs
MaxRowsNorm == 2    \* longest file given to the normalizer
MaxRowsQuiet == 3   \* longest file written into the empty table
MaxFiles == 2       \* files in the directory of a concurrent run
MaxDrops == 1       \* partitions dropped by the retention clean-up
batch_size == 1     \* rows per chunk (argument of batch_insert_data)

Workers == {1, 2}

\* ------------------------------------------------------------------------
\* Calendar (datetime of the Python standard library, proleptic Gregorian)
\* ------------------------------------------------------------------------
IsLeap(y) == (y % 4 = 0 /\ y % 100 # 0) \/ y % 400 = 0

DaysInMonth(y, m) ==
    IF m = 2 THEN (IF IsLeap(y) THEN 29 ELSE 28)
    ELSE IF m \in {4, 6, 9, 11} THEN 30 ELSE 31

LeapsBefore(y) == ((y - 1) \div 4) - ((y - 1) \div 100) + ((y - 1) \div 400)

\* days from 1970-01-01 to y-01-01
DaysBeforeYear(y) == 365 * (y - 1970) + LeapsBefore(y) - LeapsBefore(1970)

RECURSIVE DaysBeforeMonth(_, _)
DaysBeforeMonth(y, m) ==
    IF m = 1 THEN 0 ELSE DaysBeforeMonth(y, m - 1) + DaysInMonth(y, m - 1)

\* days from 1970-01-01 to y-m-01
DaysFromCivil(y, m) == DaysBeforeYear(y) + DaysBeforeMonth(y, m)

YearOfDay(d) ==
    LET y0 == 1970 + (d \div 366)
    IN  CHOOSE y \in y0 .. (y0 + 2) :
            DaysBeforeYear(y) <= d /\ d < DaysBeforeYear(y + 1)

MonthOfDay(d) ==
    LET y == YearOfDay(d)
    IN  CHOOSE m \in 1 .. 12 :
            /\ DaysFromCivil(y, m) <= d
            /\ d < DaysFromCivil(y, m) + DaysInMonth(y, m)

\* datetime.fromtimestamp(ts / 1000) read as (year, month): the process's
\* local time, tzOff hours east of UTC
LocalYearMonth(ts, tzOff) ==
    LET d == (ts + tzOff) \div 24
    IN  <<YearOfDay(d), MonthOfDay(d)>>

\* datetime(y, m, 1).timestamp(): a naive datetime is local time
LocalMidnight(y, m, tzOff) == DaysFromCivil(y, m) * 24 - tzOff


\* ------------------------------------------------------------------------
\* Cells and rows of a DataFrame
\* ------------------------------------------------------------------------
\* A cell is a number, a missing value (NaN / None) or a string that is no
\* number and no date ("invalid token").
Num(n) == [tag |-> "num", n |-> n]
NaN == [tag |-> "nan", n |-> 0]
Bad == [tag |-> "str", n |-> 0]

isna(c) == c.tag = "nan"

\* a record of a file: its event-time cell and one numeric cell
Rec(t, x) == [ts |-> t, v |-> x]

\* Series.fillna(0.0)
fillna(c) == IF isna(c) THEN Num(0) ELSE c

\* (variant: errors="ignore", what cannot be read stays as it is)
to_numeric_ignore(c) == c

\* pd.to_numeric(errors="coerce")
to_numeric(c) == IF c.tag = "num" THEN c ELSE NaN

\* 1e12 ms and 9999999999999 ms, in hours
SecondsThreshold == 277777
MaxValidTs == 2777777

\* convert_to_timestamp_ms of _convert_data_types
convert_to_timestamp_ms(c) ==
    IF isna(c) THEN NaN
    ELSE IF c.tag = "num"
         THEN (IF c.n <= SecondsThreshold THEN Num(c.n * 1000) ELSE c)
         ELSE NaN

MapSeq(f(_), s) == [i \in 1 .. Len(s) |-> f(s[i])]

AnySeq(P(_), s) == \E i \in 1 .. Len(s) : P(s[i])

PARTITIONED_TABLES == {"klines", "trading_metrics"}

\* _convert_data_types: timestamp column, numeric column, and the immediate
\* fillna of trading_metrics
convert_row(r, tbl) ==
    LET t == convert_to_timestamp_ms(r.ts)
        x == to_numeric(r.v)
    IN  [ts |-> t, v |-> IF tbl = "trading_metrics" THEN fillna(x) ELSE x]

\* the final check of prepare_data_by_type: every remaining NaN becomes 0.0
final_fill(r) == [ts |-> fillna(r.ts), v |-> fillna(r.v)]

\* prepare_data_by_type on the two columns; <<>> stands for None
prepare_data_by_type(df, tbl) ==
    LET smart == IF tbl = "trading_metrics"
                 THEN MapSeq(LAMBDA r : [r EXCEPT !.v = fillna(r.v)], df)
                 ELSE df
    IN  IF tbl = "trading_metrics" /\ AnySeq(LAMBDA r : isna(r.ts), smart)
        THEN <<>>
        ELSE LET conv == MapSeq(LAMBDA r : convert_row(r, tbl), smart)
             IN  IF Len(conv) = 0 THEN <<>>
                 ELSE MapSeq(final_fill, conv)

\* the NaN check that opens batch_insert_data: <<>> stands for "return 0"
nan_check(df, tbl) ==
    IF ~AnySeq(LAMBDA r : isna(r.ts) \/ isna(r.v), df) THEN df
    ELSE LET cleaned == IF tbl = "trading_metrics"
                        THEN MapSeq(LAMBDA r : [r EXCEPT !.v = fillna(r.v)], df)
                        ELSE df
         IN  IF tbl = "trading_metrics" /\ AnySeq(LAMBDA r : isna(r.ts), cleaned)
             THEN <<>>
             ELSE MapSeq(final_fill, cleaned)

\* ------------------------------------------------------------------------
\* Partition catalog and provisioner (UniversalPartitionManager)
\* ------------------------------------------------------------------------
RECURSIVE Digits(_)
Digits(n) == IF n < 10 THEN <<n>> ELSE Append(Digits(n \div 10), n % 10)

\* (variant: the month without its leading zero)
partition_name_unpadded(tbl, y, m) == <<tbl, Digits(y), Digits(m)>>

\* f"{table_name}_{year}_{month:02d}"
partition_name(tbl, y, m) == <<tbl, Digits(y), <<m \div 10, m % 10>>>>

\* (variant: every month taken as 30 days long)
get_month_bounds_30_days(y, m, tzOff) ==
    <<LocalMidnight(y, m, tzOff), LocalMidnight(y, m, tzOff) + 30 * 24>>

get_month_bounds_ms(y, m, tzOff) ==
    <<LocalMidnight(y, m, tzOff),
      IF m = 12 THEN LocalMidnight(y + 1, 1, tzOff)
      ELSE LocalMidnight(y, m + 1, tzOff)>>

\* the loop of auto_create_partitions_for_data that collects unique_months
\* (variant: only the first row is looked at)
unique_months_first_row(rows, tzOff) ==
    IF Len(rows) = 0 THEN {}
    ELSE {LocalYearMonth(rows[1].ts.n, tzOff)}

unique_months(rows, tzOff) ==
    {LocalYearMonth(rows[i].ts.n, tzOff) :
        i \in {j \in 1 .. Len(rows) :
                 /\ rows[j].ts.tag = "num"
                 /\ ~(rows[j].ts.n <= 0 \/ rows[j].ts.n > MaxValidTs)}}


\* ------------------------------------------------------------------------
\* State
\* ------------------------------------------------------------------------
VARIABLES
    tz,          \* offset of the process's local time from UTC, in hours
    table,       \* target table of the files of this run
    refused,     \* months whose partition the store refuses to create
    maxconn,     \* maxconn of the SimpleConnectionPool
    partitions,  \* catalog: the committed partitions [name, lo, hi)
    stored,      \* committed rows of the table
    dropsLeft,   \* drops the retention clean-up may still do
    queue,       \* files submitted to the executor and not yet started
    pc,          \* per worker: position in import_single_file
    raw,         \* per worker: the file's records as read_data_file returned them
    df,          \* per worker: the prepared DataFrame being written
    phase,       \* per worker: "pre" (provisioning before the inserts) or "retry"
    todo,        \* per worker: unique_months not yet visited by auto_create
    cur,         \* per worker: (year, month) of the running create_monthly_partition
    succ,        \* per worker: success_count of auto_create
    want,        \* per worker: len(unique_months) of auto_create
    acOK,        \* per worker: what auto_create_partitions_for_data returned
    cmpRet,      \* per worker: what create_monthly_partition returned last
    ensured,     \* per worker: months whose create_monthly_partition completed
    idx,         \* per worker: index i of the chunk loop (1-based)
    inserted,    \* per worker: records_inserted
    attempts,    \* per worker: execute_batch calls issued for the chunk at idx
    tx,          \* per worker: transaction of the insert connection
    pending,     \* per worker: rows inserted by the open transaction
    ret,         \* per worker: what batch_insert_data returned
    yqueue,      \* years for which create_year_partitions is still to be called
    ypc,         \* position of the running create_year_partitions
    yyear,       \* its argument
    ytab,        \* its table_name, as an index of TableOrder
    ymonth,      \* its month
    total_created, \* its total_created
    dir_exists,  \* os.path.exists(directory_path)
    dirFiles,    \* the files under directory_path
    matches,     \* per pattern of file_patterns: the files glob finds for it
    max_workers, \* argument of import_directory
    checked_out, \* per worker: connections it holds from the pool
    batches,     \* the files given to import_single_file, as they were at the start
    dirpc,       \* position of import_directory ("off": it is not running)
    all_files,   \* its all_files, the files submitted to the executor
    cfile,       \* per worker: index in all_files of the file it imports
    done_futures, \* futures whose import_single_file has returned
    collected,   \* futures that the as_completed loop has handled
    successful_imports,
    failed_imports,
    failed_files,
    all_directories, \* dir_info['file_count'] of each directory given to the bulk import
    bulk_max_workers, \* max_workers of _process_directories_parallel
    dirState,    \* per directory: where its _process_single_directory future is
    returned,    \* per directory: what import_single_file did for each file so far
    result,      \* per directory: the result dict of _process_single_directory
    stats        \* self.stats of EnhancedBulkImportManager

yearVars == <<yqueue, ypc, yyear, ytab, ymonth, total_created>>
\* what no step of an import changes
dirEnv == <<dir_exists, dirFiles, matches, max_workers, batches>>
dirVars == <<dirpc, all_files, cfile, done_futures, collected,
             successful_imports, failed_imports, failed_files>>
bulkVars == <<all_directories, bulk_max_workers, dirState, returned, result, stats>>
envVars == <<tz, table, refused, maxconn, yearVars, dirEnv, bulkVars>>
provVars == <<phase, todo, cur, succ, want, acOK, cmpRet, ensured>>
insVars == <<idx, inserted, attempts, tx, pending>>
vars == <<tz, table, refused, maxconn, partitions, stored, dropsLeft, queue, pc, raw, df,
          phase, todo, cur, succ, want, acOK, cmpRet, ensured, idx, inserted,
          attempts, tx, pending, ret, yqueue, ypc, yyear, ytab, ymonth,
          total_created, dir_exists, dirFiles, matches, max_workers, batches,
          checked_out,
          dirpc,
          all_files, cfile, done_futures, collected, successful_imports,
          failed_imports, failed_files, all_directories, bulk_max_workers,
          dirState, returned, result, stats>>

\* ------------------------------------------------------------------------
\* Inputs
\* ------------------------------------------------------------------------
TsJan == DaysFromCivil(2024, 1) * 24 + 12    \* 2024-01-01 12:00 UTC
TsLate == DaysFromCivil(2024, 2) * 24 - 4    \* 2024-01-31 20:00 UTC
TsFeb == DaysFromCivil(2024, 2) * 24 + 12    \* 2024-02-01 12:00 UTC

TzOffsets == {0, 8}

SeqsUpTo(S, n) == UNION {[1 .. k -> S] : k \in 1 .. n}

\* records of the files of the concurrent runs
RecordsRace ==
    {Rec(Num(TsJan), Num(1)), Rec(Num(TsFeb), Num(1)), Rec(Num(TsJan), Num(2))}

\* records of the files of the one-worker runs
RecordsSeq ==
    {Rec(Num(TsJan), Num(1)), Rec(Num(TsLate), Num(1)), Rec(Num(TsFeb), Num(1)),
     Rec(Num(0), Num(1))}

\* records of the files given to the normalizer
RecordsNorm ==
    {Rec(t, x) : t \in {Num(TsJan), Num(TsFeb), Num(0), NaN, Bad},
                 x \in {Num(1), NaN, Bad}}

\* ------------------------------------------------------------------------
\* The store
\* ------------------------------------------------------------------------
\* the key on which INSERT .. ON CONFLICT DO NOTHING finds a conflict
RowKey(r) == r.ts

Covering(ts) == {p \in partitions : p.lo <= ts /\ ts < p.hi}

\* (variant: the catalog query never finds the table)
partition_exists_never(name) == FALSE

partition_exists(name) == \E p \in partitions : p.name = name

\* the bounds overlap those of another partition of the same parent table
Overlaps(tbl, lo, hi) ==
    \E p \in partitions : p.name[1] = tbl /\ lo < p.hi /\ p.lo < hi

\* DatabaseConfig.max_connections, the default of DB_MAX_CONNECTIONS
max_connections == 10

\* (variant: putconn only on the normal way out of get_connection)
putconn_normal_exit_only == FALSE

\* the connections the `finally` of get_connection gives back to the pool
\* when the block is left by an exception
putconn_after_exception == TRUE

\* worker w is inside the `with self.db.get_connection()` of batch_insert_data
HoldsInsertConn(w) ==
    \/ pc[w] \in {"insert", "retry_insert", "raise"}
    \/ (phase[w] = "retry" /\ pc[w] \in {"ensure", "create"})

\* connections the pool has handed out: one per worker inside the insert
\* block, one per worker inside the create block of create_monthly_partition
InUse ==
    Cardinality({o \in Workers : HoldsInsertConn(o)})
        + Cardinality({o \in Workers : pc[o] = "create"})

\* getconn raises PoolError("connection pool exhausted")
PoolExhausted == InUse >= maxconn

\* a transaction that has inserted holds ROW EXCLUSIVE on the parent table
ParentLocked == \E o \in Workers : tx[o] = "open"

\* df.to_dict("records") for one row
ToRecord(r) == [ts |-> r.ts.n, v |-> r.v.n]

chunk_of(rows, i) == SubSeq(rows, i, IF i + batch_size - 1 < Len(rows)
                                      THEN i + batch_size - 1 ELSE Len(rows))

\* (variant: a plain INSERT, with no ON CONFLICT clause and no unique key)
InsertRowsNoConflict(rows, i, acc) ==
    acc \cup {ToRecord(rows[j]) : j \in i .. Len(rows)}

RECURSIVE InsertRows(_, _, _)
\* rows of the page that the statement adds, in order, skipping conflicts
InsertRows(rows, i, acc) ==
    IF i > Len(rows) THEN acc
    ELSE LET r == ToRecord(rows[i])
         IN  IF \E q \in stored \cup acc : RowKey(q) = RowKey(r)
             THEN InsertRows(rows, i + 1, acc)
             ELSE InsertRows(rows, i + 1, acc \cup {r})

\* (variant: only the rows the statement really adds are counted)
len_batch_written(rows) ==
    Cardinality({RowKey(ToRecord(rows[i])) : i \in 1 .. Len(rows)}
                \ {RowKey(q) : q \in stored})

\* records_inserted += len(batch)
len_batch(rows) == Len(rows)

\* (variant: a connection in autocommit mode)
StoredAfterExecuteAutocommit(rows, pend) == stored \cup InsertRows(rows, 1, pend)

\* the committed rows after a successful execute_batch: the connection is
\* not in autocommit mode, the rows stay in the open transaction
StoredAfterExecute(rows, pend) == stored

\* execute_batch(cursor, query, values) on worker w's insert connection:
\* the error it raises ("none" if it succeeds) 
ExecError(w, rows) ==
    IF tx[w] = "aborted" THEN "in failed transaction"
    ELSE IF \E i \in 1 .. Len(rows) : Covering(rows[i].ts.n) = {}
         THEN "no partition of relation"
         ELSE "none"

\* the statement waits while another open transaction holds an uncommitted
\* row with a key of this page
MustWait(w, rows) ==
    \E o \in Workers \ {w} :
        /\ tx[o] = "open"
        /\ \E q \in pending[o] : \E i \in 1 .. Len(rows) :
               RowKey(q) = RowKey(ToRecord(rows[i]))


\* ------------------------------------------------------------------------
\* Initial states
\* ------------------------------------------------------------------------
\* self.stats as __init__ leaves it (the fields the directory results feed)
EmptyStats ==
    [successful_files |-> 0, failed_files |-> 0, failed_files_list |-> <<>>]

\* the result dict at the start of _process_single_directory
NewResult ==
    [success |-> TRUE, successful_files |-> 0, failed_files |-> 0,
     failed_files_list |-> <<>>]

\* no EnhancedBulkImportManager is running
NoBulkImport ==
    /\ all_directories = <<>>
    /\ bulk_max_workers = 1
    /\ dirState = <<>>
    /\ returned = <<>>
    /\ result = <<>>
    /\ stats = EmptyStats

InitWorkers ==
    /\ pc = [w \in Workers |-> "idle"]
    /\ raw = [w \in Workers |-> <<>>]
    /\ df = [w \in Workers |-> <<>>]
    /\ phase = [w \in Workers |-> "pre"]
    /\ todo = [w \in Workers |-> {}]
    /\ cur = [w \in Workers |-> <<0, 0>>]
    /\ succ = [w \in Workers |-> 0]
    /\ want = [w \in Workers |-> 0]
    /\ acOK = [w \in Workers |-> "-"]
    /\ cmpRet = [w \in Workers |-> "-"]
    /\ ensured = [w \in Workers |-> {}]
    /\ idx = [w \in Workers |-> 1]
    /\ inserted = [w \in Workers |-> 0]
    /\ attempts = [w \in Workers |-> 0]
    /\ tx = [w \in Workers |-> "none"]
    /\ pending = [w \in Workers |-> {}]
    /\ ret = [w \in Workers |-> 0]
    /\ checked_out = [w \in Workers |-> 0]

\* no create_year_partitions is called
NoBulkProvisioning ==
    /\ yqueue = <<>>
    /\ ypc = "idle"
    /\ yyear = 0
    /\ ytab = 1
    /\ ymonth = 1
    /\ total_created = 0

\* the summary import_directory starts from
ZeroSummary ==
    /\ successful_imports = 0
    /\ failed_imports = 0
    /\ failed_files = <<>>

NoFutures ==
    /\ all_files = <<>>
    /\ cfile = [w \in Workers |-> 0]
    /\ done_futures = {}
    /\ collected = {}

\* import_single_file is called directly, not through import_directory
NoDirectoryRun ==
    /\ dir_exists = FALSE
    /\ dirFiles = {}
    /\ matches = <<>>
    /\ max_workers = Cardinality(Workers)
    /\ batches = queue
    /\ dirpc = "off"
    /\ NoFutures
    /\ ZeroSummary

\* the partition create_monthly_partition makes for (y, m)
MonthPartition(tbl, ym, tzOff) ==
    LET b == get_month_bounds_ms(ym[1], ym[2], tzOff)
    IN  [name |-> partition_name(tbl, ym[1], ym[2]), lo |-> b[1], hi |-> b[2]]

\* two workers, an empty table, up to MaxFiles files in the directory
Init ==
    /\ tz = 0
    /\ table = "klines"
    /\ refused \in {{}, {<<2024, 2>>}}
    /\ maxconn = max_connections
    /\ partitions = {}
    /\ stored = {}
    /\ dropsLeft = MaxDrops
    /\ queue \in SeqsUpTo(SeqsUpTo(RecordsRace, MaxRows), MaxFiles)
    /\ InitWorkers
    /\ NoBulkImport
    /\ NoBulkProvisioning
    /\ NoDirectoryRun

\* what earlier runs may have left in the table
PriorRows == {[ts |-> TsJan, v |-> 2], [ts |-> TsFeb, v |-> 2]}

\* one worker; a table that earlier runs have filled; one file, imported
\* once or twice
InitSeq ==
    /\ tz \in TzOffsets
    /\ table = "klines"
    /\ refused \in {{}, {<<2024, 2>>}}
    /\ maxconn = max_connections
    /\ \E S \in SUBSET {<<2024, 1>>, <<2024, 2>>} :
         partitions = {MonthPartition(table, ym, tz) : ym \in S}
    /\ stored \in {R \in SUBSET PriorRows :
                     \A r \in R : \E p \in partitions :
                        p.lo <= r.ts /\ r.ts < p.hi}
    /\ dropsLeft = MaxDrops
    /\ \E f \in SeqsUpTo(RecordsSeq, MaxRows) : queue \in {<<f>>, <<f, f>>}
    /\ InitWorkers
    /\ NoBulkImport
    /\ NoBulkProvisioning
    /\ NoDirectoryRun

\* the partition recreate_partitions_properly makes for (y, m): bounds from
\* datetime(year, month, 1, tzinfo=timezone.utc)
RebuiltPartition(tbl, ym) == MonthPartition(tbl, ym, 0)

\* one worker; a table whose partitions rebuild_all_partitions.py has made;
\* one file
InitRebuilt ==
    /\ tz \in TzOffsets
    /\ table = "klines"
    /\ refused = {}
    /\ maxconn = max_connections
    /\ \E S \in SUBSET {<<2024, 1>>, <<2024, 2>>} :
         partitions = {RebuiltPartition(table, ym) : ym \in S}
    /\ stored = {}
    /\ dropsLeft = MaxDrops
    /\ \E f \in SeqsUpTo(RecordsSeq, MaxRows) : queue = <<f>>
    /\ InitWorkers
    /\ NoBulkImport
    /\ NoBulkProvisioning
    /\ NoDirectoryRun

\* one worker, an empty table, one file of raw records
InitNorm ==
    /\ tz = 0
    /\ table \in PARTITIONED_TABLES
    /\ refused = {}
    /\ maxconn = max_connections
    /\ partitions = {}
    /\ stored = {}
    /\ dropsLeft = 0
    /\ \E f \in SeqsUpTo(RecordsNorm, MaxRowsNorm) : queue = <<f>>
    /\ InitWorkers
    /\ NoBulkImport
    /\ NoBulkProvisioning
    /\ NoDirectoryRun

\* one worker, an empty table with no partition, a quiet store, one file
InitQuiet ==
    /\ tz \in TzOffsets
    /\ table = "klines"
    /\ refused = {}
    /\ maxconn = max_connections
    /\ partitions = {}
    /\ stored = {}
    /\ dropsLeft = 0
    /\ \E f \in SeqsUpTo(RecordsSeq, MaxRowsQuiet) : queue = <<f>>
    /\ InitWorkers
    /\ NoBulkImport
    /\ NoBulkProvisioning
    /\ NoDirectoryRun

\* ------------------------------------------------------------------------
\* import_directory: the files it finds and the executor it runs them on
\* ------------------------------------------------------------------------
MaxDirFiles == 2    \* files under the directory
MaxPatterns == 2    \* patterns in file_patterns

FileIds == 1 .. MaxDirFiles

\* what read_data_file gives for a file of the directory: a January and a
\* February row, in this order in the odd files, reversed in the even ones
FileContent(f) ==
    IF f % 2 = 1 THEN <<Rec(Num(TsJan), Num(f)), Rec(Num(TsFeb), Num(f))>>
    ELSE <<Rec(Num(TsFeb), Num(f)), Rec(Num(TsJan), Num(f))>>

\* (variant: the pattern is not applied, every file of the tree is taken)
glob_everything(k) == IF dir_exists THEN dirFiles ELSE {}

\* glob.glob(os.path.join(directory_path, "**", pattern), recursive=True) for
\* the k-th pattern; a directory that does not exist gives []
glob_files(k) == IF dir_exists THEN matches[k] ELSE {}

\* the lists that hold every element of the set S once
ListsOf(S) ==
    {l \in [1 .. Cardinality(S) -> S] :
        \A i, j \in 1 .. Cardinality(S) : l[i] = l[j] => i = j}

RECURSIVE Extended(_)
\* all_files after the k-th all_files.extend(files): the lists it may be
Extended(k) ==
    IF k = 0 THEN {<<>>}
    ELSE {a \o l : a \in Extended(k - 1), l \in ListsOf(glob_files(k))}

\* (variant: the list is used as found)
keep_duplicates(found) == {found}

\* list(set(all_files)): each file once, in any order
dedupe(found) == ListsOf({found[i] : i \in 1 .. Len(found)})

\* (variant: the executor starts a thread for every file submitted)
thread_per_file(w) == TRUE

\* ThreadPoolExecutor(max_workers=max_workers): threads 1 .. max_workers
thread_exists(w) == w <= max_workers

\* (variant: a failed file ends the as_completed loop)
on_failed_result_stop == "returned"

\* after a failed file the as_completed loop goes on
on_failed_result == "run"

\* ------------------------------------------------------------------------
\* import_single_file / batch_insert_data, one worker thread w
\* ------------------------------------------------------------------------
\* The executor hands the next file to a free worker.  import_single_file
\* prepares it; batch_insert_data checks it for NaN and enters
\* auto_create_partitions_for_data with the unique months of the frame.
StartImport(w) ==
    /\ pc[w] = "idle"
    /\ thread_exists(w)
    /\ dirpc \in {"off", "run"}
    /\ queue # <<>>
    /\ cfile' = [cfile EXCEPT ![w] = IF dirpc = "off" THEN 0
                                     ELSE Len(all_files) - Len(queue) + 1]
    /\ UNCHANGED <<dirpc, all_files, done_futures, collected,
                   successful_imports, failed_imports, failed_files>>
    /\ queue' = Tail(queue)
    /\ raw' = [raw EXCEPT ![w] = Head(queue)]
    /\ LET prepared == prepare_data_by_type(Head(queue), table)
           checked == nan_check(prepared, table)
       IN  /\ df' = [df EXCEPT ![w] = checked]
           /\ IF checked = <<>>
              THEN /\ pc' = [pc EXCEPT ![w] = "done"]
                   /\ todo' = [todo EXCEPT ![w] = {}]
                   /\ want' = [want EXCEPT ![w] = 0]
              ELSE /\ pc' = [pc EXCEPT ![w] = "ensure"]
                   /\ todo' = [todo EXCEPT ![w] = unique_months(checked, tz)]
                   /\ want' = [want EXCEPT ![w] =
                                 Cardinality(unique_months(checked, tz))]
    /\ phase' = [phase EXCEPT ![w] = "pre"]
    /\ succ' = [succ EXCEPT ![w] = 0]
    /\ acOK' = [acOK EXCEPT ![w] = "-"]
    /\ cmpRet' = [cmpRet EXCEPT ![w] = "-"]
    /\ ensured' = [ensured EXCEPT ![w] = {}]
    /\ idx' = [idx EXCEPT ![w] = 1]
    /\ inserted' = [inserted EXCEPT ![w] = 0]
    /\ attempts' = [attempts EXCEPT ![w] = 0]
    /\ ret' = [ret EXCEPT ![w] = 0]
    /\ UNCHANGED <<envVars, checked_out, partitions, stored, dropsLeft, cur, tx, pending>>

\* create_monthly_partition, up to the answer of partition_exists and the
\* get_connection of the create block; with no connection left in the pool
\* partition_exists answers False and get_connection raises: it returns False
CheckPartition(w) ==
    /\ pc[w] = "ensure"
    /\ \E ym \in todo[w] :
         /\ cur' = [cur EXCEPT ![w] = ym]
         /\ IF PoolExhausted
            THEN /\ cmpRet' = [cmpRet EXCEPT ![w] = "F"]
                 /\ todo' = [todo EXCEPT ![w] = @ \ {ym}]
                 /\ ensured' = [ensured EXCEPT ![w] = @ \cup {ym}]
                 /\ UNCHANGED <<succ, pc>>
            ELSE IF partition_exists(partition_name(table, ym[1], ym[2]))
            THEN /\ cmpRet' = [cmpRet EXCEPT ![w] = "T"]
                 /\ succ' = [succ EXCEPT ![w] = @ + 1]
                 /\ todo' = [todo EXCEPT ![w] = @ \ {ym}]
                 /\ ensured' = [ensured EXCEPT ![w] = @ \cup {ym}]
                 /\ pc' = pc
            ELSE /\ pc' = [pc EXCEPT ![w] = "create"]
                 /\ UNCHANGED <<cmpRet, succ, todo, ensured>>
         /\ checked_out' = [checked_out EXCEPT ![w] =
                IF ~PoolExhausted
                   /\ ~partition_exists(partition_name(table, ym[1], ym[2]))
                THEN @ + 1 ELSE @]
    /\ UNCHANGED <<envVars, partitions, stored, dropsLeft, queue, dirVars, raw, df, phase,
                   want, acOK, insVars, ret>>

\* (variant: the exception is logged and True is returned)
on_create_error_ignored == "T"

\* what create_monthly_partition returns from its `except Exception`
on_create_error == "F"

\* create_monthly_partition: CREATE TABLE .. PARTITION OF .. and commit; any
\* exception makes it return False
CreatePartition(w) ==
    /\ pc[w] = "create"
    /\ ~ParentLocked
    /\ LET y == cur[w][1]
           m == cur[w][2]
           name == partition_name(table, y, m)
           b == get_month_bounds_ms(y, m, tz)
           fails == \/ partition_exists(name)
                    \/ Overlaps(table, b[1], b[2])
                    \/ cur[w] \in refused
       IN  /\ partitions' = IF fails THEN partitions
                            ELSE partitions \cup
                                   {[name |-> name, lo |-> b[1], hi |-> b[2]]}
           /\ cmpRet' = [cmpRet EXCEPT ![w] = IF fails THEN on_create_error ELSE "T"]
           /\ succ' = [succ EXCEPT ![w] =
                                IF fails /\ on_create_error = "F" THEN @ ELSE @ + 1]
           /\ checked_out' = [checked_out EXCEPT ![w] =
                  IF fails /\ ~putconn_after_exception THEN @ ELSE @ - 1]
    /\ todo' = [todo EXCEPT ![w] = @ \ {cur[w]}]
    /\ ensured' = [ensured EXCEPT ![w] = @ \cup {cur[w]}]
    /\ pc' = [pc EXCEPT ![w] = "ensure"]
    /\ UNCHANGED <<envVars, stored, dropsLeft, queue, dirVars, raw, df, phase, cur, want,
                   acOK, insVars, ret>>

\* auto_create_partitions_for_data returns success_count == len(unique_months)
\* (True when there is no valid month); batch_insert_data goes on to the
\* inserts (get_connection; PoolError makes it return 0), or, in the retry,
\* resubmits the chunk or re-raises
EnsureDone(w) ==
    /\ pc[w] = "ensure"
    /\ todo[w] = {}
    /\ LET ok == succ[w] = want[w]
       IN  /\ acOK' = [acOK EXCEPT ![w] = IF ok THEN "T" ELSE "F"]
           /\ pc' = [pc EXCEPT ![w] =
                       IF phase[w] = "pre"
                       THEN (IF PoolExhausted THEN "done" ELSE "insert")
                       ELSE IF ok THEN "retry_insert" ELSE "raise"]
    /\ checked_out' = [checked_out EXCEPT ![w] =
           IF phase[w] = "pre" /\ ~PoolExhausted THEN @ + 1 ELSE @]
    /\ UNCHANGED <<envVars, partitions, stored, dropsLeft, queue, dirVars, raw, df, phase,
                   todo, cur, succ, want, cmpRet, ensured, insVars, ret>>

\* (variant: a store that undoes only the failed statement and keeps the
\* transaction, its rows and its locks)
tx_after_error_kept == "open"

\* the state of the connection's transaction after a statement has failed
tx_after_error == "aborted"

\* one pass of the chunk loop: execute_batch of records[i : i + batch_size]
InsertChunk(w) ==
    /\ pc[w] = "insert"
    /\ idx[w] <= Len(df[w])
    /\ LET rows == chunk_of(df[w], idx[w])
           err == ExecError(w, rows)
       IN  IF err = "none"
           THEN /\ ~MustWait(w, rows)
                /\ pending' = [pending EXCEPT ![w] = InsertRows(rows, 1, @)]
                /\ stored' = StoredAfterExecute(rows, pending[w])
                /\ tx' = [tx EXCEPT ![w] = "open"]
                /\ inserted' = [inserted EXCEPT ![w] = @ + len_batch(rows)]
                /\ idx' = [idx EXCEPT ![w] = @ + batch_size]
                /\ attempts' = [attempts EXCEPT ![w] = 0]
                /\ UNCHANGED <<pc, phase, todo, want, succ>>
           ELSE /\ pending' = [pending EXCEPT ![w] = {}]
                /\ tx' = [tx EXCEPT ![w] = tx_after_error]
                /\ attempts' = [attempts EXCEPT ![w] = @ + 1]
                /\ UNCHANGED <<stored, inserted, idx>>
                /\ IF err = "no partition of relation"
                   THEN /\ pc' = [pc EXCEPT ![w] = "ensure"]
                        /\ phase' = [phase EXCEPT ![w] = "retry"]
                        /\ todo' = [todo EXCEPT ![w] = unique_months(rows, tz)]
                        /\ want' = [want EXCEPT ![w] =
                                      Cardinality(unique_months(rows, tz))]
                        /\ succ' = [succ EXCEPT ![w] = 0]
                   ELSE /\ pc' = [pc EXCEPT ![w] = "raise"]
                        /\ UNCHANGED <<phase, todo, want, succ>>
    /\ UNCHANGED <<envVars, checked_out, partitions, dropsLeft, queue, dirVars, raw, df, cur,
                   acOK, cmpRet, ensured, ret>>

\* (variant: a failed retry provisions and retries again)
on_retry_error_again == "ensure"

\* `raise retry_error`: where a failed retry goes
on_retry_error == "raise"

\* the single retry: execute_batch of the same chunk on the same cursor
RetryInsert(w) ==
    /\ pc[w] = "retry_insert"
    /\ LET rows == chunk_of(df[w], idx[w])
           err == ExecError(w, rows)
       IN  IF err = "none"
           THEN /\ ~MustWait(w, rows)
                /\ pending' = [pending EXCEPT ![w] = InsertRows(rows, 1, @)]
                /\ stored' = StoredAfterExecute(rows, pending[w])
                /\ tx' = [tx EXCEPT ![w] = "open"]
                /\ inserted' = [inserted EXCEPT ![w] = @ + len_batch(rows)]
                /\ idx' = [idx EXCEPT ![w] = @ + batch_size]
                /\ attempts' = [attempts EXCEPT ![w] = 0]
                /\ pc' = [pc EXCEPT ![w] = "insert"]
           ELSE /\ pending' = [pending EXCEPT ![w] = {}]
                /\ tx' = [tx EXCEPT ![w] = "aborted"]
                /\ pc' = [pc EXCEPT ![w] = on_retry_error]
                /\ attempts' = [attempts EXCEPT ![w] = @ + 1]
                /\ UNCHANGED <<stored, inserted, idx>>
    /\ UNCHANGED <<envVars, checked_out, partitions, dropsLeft, queue, dirVars, raw, df,
                   provVars, ret>>

\* an exception leaves the with-blocks: get_connection rolls the connection
\* back and returns it to the pool, batch_insert_data returns 0
Raise(w) ==
    /\ pc[w] = "raise"
    /\ tx' = [tx EXCEPT ![w] = "none"]
    /\ pending' = [pending EXCEPT ![w] = {}]
    /\ ret' = [ret EXCEPT ![w] = 0]
    /\ pc' = [pc EXCEPT ![w] = "done"]
    /\ checked_out' = [checked_out EXCEPT
                         ![w] = IF putconn_after_exception THEN @ - 1 ELSE @]
    /\ UNCHANGED <<envVars, partitions, stored, dropsLeft, queue, dirVars, raw, df,
                   provVars, idx, inserted, attempts>>

\* after the last chunk: conn.commit() and return records_inserted
Commit(w) ==
    /\ pc[w] = "insert"
    /\ idx[w] > Len(df[w])
    /\ stored' = stored \cup pending[w]
    /\ tx' = [tx EXCEPT ![w] = "none"]
    /\ pending' = [pending EXCEPT ![w] = {}]
    /\ ret' = [ret EXCEPT ![w] = inserted[w]]
    /\ pc' = [pc EXCEPT ![w] = "done"]
    /\ checked_out' = [checked_out EXCEPT ![w] = @ - 1]
    /\ UNCHANGED <<envVars, partitions, dropsLeft, queue, dirVars, raw, df, provVars, idx,
                   inserted, attempts>>

\* (variant: a file is a success when the write raised nothing)
reports_success_always(records_count) == TRUE

\* the value import_single_file returns after batch_insert_data
reports_success(records_count) == records_count > 0

\* import_single_file has returned (True when records_count > 0); the thread
\* is free and the file's future is done
Finish(w) ==
    /\ pc[w] = "done"
    /\ done_futures' = IF dirpc = "off" THEN done_futures
                       ELSE done_futures \cup
                              {[slot |-> cfile[w], file |-> all_files[cfile[w]],
                                success |-> reports_success(ret[w])]}
    /\ cfile' = [cfile EXCEPT ![w] = 0]
    /\ UNCHANGED <<dirpc, all_files, collected, successful_imports,
                   failed_imports, failed_files>>
    /\ pc' = [pc EXCEPT ![w] = "idle"]
    /\ raw' = [raw EXCEPT ![w] = <<>>]
    /\ df' = [df EXCEPT ![w] = <<>>]
    /\ phase' = [phase EXCEPT ![w] = "pre"]
    /\ cur' = [cur EXCEPT ![w] = <<0, 0>>]
    /\ succ' = [succ EXCEPT ![w] = 0]
    /\ want' = [want EXCEPT ![w] = 0]
    /\ acOK' = [acOK EXCEPT ![w] = "-"]
    /\ cmpRet' = [cmpRet EXCEPT ![w] = "-"]
    /\ ensured' = [ensured EXCEPT ![w] = {}]
    /\ idx' = [idx EXCEPT ![w] = 1]
    /\ inserted' = [inserted EXCEPT ![w] = 0]
    /\ attempts' = [attempts EXCEPT ![w] = 0]
    /\ ret' = [ret EXCEPT ![w] = 0]
    /\ UNCHANGED <<envVars, checked_out, partitions, stored, dropsLeft, queue, todo, tx,
                   pending>>

\* two inserting transactions wait for each other's uncommitted keys: the
\* store detects the deadlock and fails the statement of one of them
DeadlockDetected(w) ==
    /\ pc[w] = "insert"
    /\ idx[w] <= Len(df[w])
    /\ tx[w] = "open"
    /\ LET rows == chunk_of(df[w], idx[w])
       IN  /\ ExecError(w, rows) = "none"
           /\ \E o \in Workers \ {w} :
                /\ pc[o] = "insert"
                /\ idx[o] <= Len(df[o])
                /\ ExecError(o, chunk_of(df[o], idx[o])) = "none"
                /\ \E q \in pending[o] : \E i \in 1 .. Len(rows) :
                       RowKey(q) = RowKey(ToRecord(rows[i]))
                /\ \E q \in pending[w] :
                     \E i \in 1 .. Len(chunk_of(df[o], idx[o])) :
                       RowKey(q) = RowKey(ToRecord(chunk_of(df[o], idx[o])[i]))
    /\ pending' = [pending EXCEPT ![w] = {}]
    /\ tx' = [tx EXCEPT ![w] = "aborted"]
    /\ pc' = [pc EXCEPT ![w] = "raise"]
    /\ attempts' = [attempts EXCEPT ![w] = @ + 1]
    /\ UNCHANGED <<envVars, checked_out, partitions, stored, dropsLeft, queue, dirVars, raw, df,
                   provVars, idx, inserted, ret>>

\* ------------------------------------------------------------------------
\* The retention clean-up, run by another process
\* ------------------------------------------------------------------------
\* cleanup_old_partitions: DROP TABLE of one partition, with its rows
DropPartition ==
    /\ dropsLeft > 0
    /\ ~ParentLocked
    /\ \E p \in partitions :
         /\ partitions' = partitions \ {p}
         /\ stored' = {r \in stored : ~(p.lo <= r.ts /\ r.ts < p.hi)}
    /\ dropsLeft' = dropsLeft - 1
    /\ UNCHANGED <<envVars, checked_out, queue, dirVars, pc, raw, df, provVars, insVars, ret>>

Step(w) ==
    \/ StartImport(w)
    \/ CheckPartition(w)
    \/ CreatePartition(w)
    \/ EnsureDone(w)
    \/ InsertChunk(w)
    \/ RetryInsert(w)
    \/ Raise(w)
    \/ Commit(w)
    \/ Finish(w)

Next ==
    \/ \E w \in Workers : Step(w) \/ DeadlockDetected(w)
    \/ DropPartition

Spec == Init /\ [][Next]_vars

NextSeq ==
    \/ Step(1)
    \/ DropPartition

SpecSeq == InitSeq /\ [][NextSeq]_vars

NextNorm == Step(1)

SpecRebuilt == InitRebuilt /\ [][NextSeq]_vars

SpecNorm == InitNorm /\ [][NextNorm]_vars

SpecQuiet == InitQuiet /\ [][NextNorm]_vars


\* ------------------------------------------------------------------------
\* create_year_partitions, run by a maintenance process on a quiet store
\* ------------------------------------------------------------------------
workerVars == <<pc, raw, df, provVars, insVars, ret>>

\* PARTITIONED_TABLES.keys(), in the order of the dict
TableOrder == <<"klines", "trading_metrics">>

Years == {2023, 2024}

\* an empty catalog; create_year_partitions is called for one year, for two
\* years in a row, or twice for the same year
InitYear ==
    /\ tz \in TzOffsets
    /\ table = "klines"
    /\ \E y \in Years : refused \in {{}, {<<y, 2>>}}
    /\ maxconn = max_connections
    /\ partitions = {}
    /\ stored = {}
    /\ dropsLeft = 0
    /\ queue = <<>>
    /\ InitWorkers
    /\ NoBulkImport
    /\ \E y \in Years : yqueue \in {<<y>>, <<y, y + 1>>, <<y, y>>}
    /\ ypc = "idle"
    /\ yyear = 0
    /\ ytab = 1
    /\ ymonth = 1
    /\ total_created = 0
    /\ NoDirectoryRun

\* create_year_partitions(year) is called
YearStart ==
    /\ ypc = "idle"
    /\ yqueue # <<>>
    /\ yyear' = Head(yqueue)
    /\ yqueue' = Tail(yqueue)
    /\ ytab' = 1
    /\ ymonth' = 1
    /\ total_created' = 0
    /\ ypc' = "loop"
    /\ UNCHANGED <<tz, table, refused, maxconn, dirEnv, bulkVars, checked_out, partitions, stored, dropsLeft,
                   queue, dirVars, workerVars>>

\* one pass of its inner loop: create_monthly_partition(table_name, year, month)
YearMonth ==
    /\ ypc = "loop"
    /\ LET tbl == TableOrder[ytab]
           name == partition_name(tbl, yyear, ymonth)
           b == get_month_bounds_ms(yyear, ymonth, tz)
           exists == partition_exists(name)
           fails == Overlaps(tbl, b[1], b[2]) \/ <<yyear, ymonth>> \in refused
       IN  /\ partitions' = IF exists \/ fails THEN partitions
                            ELSE partitions \cup
                                   {[name |-> name, lo |-> b[1], hi |-> b[2]]}
           /\ total_created' = IF exists \/ ~fails THEN total_created + 1
                               ELSE total_created
    /\ IF ymonth < 12
       THEN /\ ymonth' = ymonth + 1
            /\ UNCHANGED <<ytab, ypc>>
       ELSE IF ytab < Len(TableOrder)
            THEN /\ ymonth' = 1
                 /\ ytab' = ytab + 1
                 /\ ypc' = ypc
            ELSE /\ ypc' = "return"
                 /\ UNCHANGED <<ymonth, ytab>>
    /\ UNCHANGED <<tz, table, refused, maxconn, dirEnv, bulkVars, checked_out, stored, dropsLeft, queue, dirVars,
                   workerVars, yqueue, yyear>>

\* it returns total_created
YearReturn ==
    /\ ypc = "return"
    /\ ypc' = "idle"
    /\ UNCHANGED <<tz, table, refused, maxconn, dirEnv, bulkVars, checked_out, partitions, stored, dropsLeft,
                   queue, dirVars, workerVars, yqueue, yyear, ytab, ymonth, total_created>>

NextYear == YearStart \/ YearMonth \/ YearReturn

SpecYear == InitYear /\ [][NextYear]_vars

\* ------------------------------------------------------------------------
\* import_directory, one call on an empty table, while the retention
\* clean-up may drop a partition
\* ------------------------------------------------------------------------
InitDir ==
    /\ tz = 0
    /\ table = "klines"
    /\ refused = {}
    /\ maxconn = max_connections
    /\ partitions = {}
    /\ stored = {}
    /\ dropsLeft = MaxDrops
    /\ queue = <<>>
    /\ InitWorkers
    /\ NoBulkImport
    /\ NoBulkProvisioning
    /\ dir_exists \in BOOLEAN
    /\ dirFiles \in (IF dir_exists THEN SUBSET FileIds ELSE {{}})
    /\ matches \in [1 .. MaxPatterns -> SUBSET dirFiles]
    /\ max_workers \in 1 .. Cardinality(Workers)
    /\ batches = <<>>
    /\ dirpc = "scan"
    /\ NoFutures
    /\ ZeroSummary

\* the glob of every pattern, list(set(all_files)), and either the return of
\* the zero summary or the submit of every file to the executor
ScanDirectory ==
    /\ dirpc = "scan"
    /\ \E found \in Extended(Len(matches)) : \E files \in dedupe(found) :
         /\ all_files' = files
         /\ queue' = [i \in 1 .. Len(files) |-> FileContent(files[i])]
         /\ dirpc' = IF files = <<>> THEN "returned" ELSE "run"
    /\ UNCHANGED <<envVars, checked_out, partitions, stored, dropsLeft, workerVars, cfile,
                   done_futures, collected, successful_imports, failed_imports,
                   failed_files>>

\* one turn of the as_completed loop
CollectResult ==
    /\ dirpc = "run"
    /\ \E fut \in done_futures \ collected :
         /\ collected' = collected \cup {fut}
         /\ IF fut.success
            THEN /\ successful_imports' = successful_imports + 1
                 /\ UNCHANGED <<failed_imports, failed_files, dirpc>>
            ELSE /\ failed_imports' = failed_imports + 1
                 /\ failed_files' = Append(failed_files, fut.file)
                 /\ dirpc' = on_failed_result
                 /\ UNCHANGED successful_imports
    /\ UNCHANGED <<envVars, checked_out, partitions, stored, dropsLeft, queue, workerVars,
                   all_files, cfile, done_futures>>

\* every future has been handled: the executor is shut down and the summary
\* is returned
ReturnSummary ==
    /\ dirpc = "run"
    /\ Cardinality(collected) = Len(all_files)
    /\ dirpc' = "returned"
    /\ UNCHANGED <<envVars, checked_out, partitions, stored, dropsLeft, queue, workerVars,
                   all_files, cfile, done_futures, collected,
                   successful_imports, failed_imports, failed_files>>

NextDir ==
    \/ ScanDirectory
    \/ \E w \in Workers : Step(w) \/ DeadlockDetected(w)
    \/ DropPartition
    \/ CollectResult
    \/ ReturnSummary

SpecDir == InitDir /\ [][NextDir]_vars

\* import_directory on a directory whose files all match, under a fair
\* scheduler: the threads, the store's deadlock detector and the
\* as_completed loop do not all stand still while one of them can go on.
\* The retention clean-up is not obliged to drop anything.
InitLive ==
    /\ InitDir
    /\ dirFiles = FileIds
    /\ \A k \in 1 .. MaxPatterns : matches[k] = dirFiles
    /\ max_workers = Cardinality(Workers)

\* a step of the program or of the store's deadlock detector
Progress ==
    \/ ScanDirectory
    \/ \E w \in Workers : Step(w) \/ DeadlockDetected(w)
    \/ CollectResult
    \/ ReturnSummary

\* while the program can take a step, it takes one
Fairness == WF_vars(Progress)

SpecLive == InitLive /\ [][NextDir]_vars /\ Fairness

\* ------------------------------------------------------------------------
\* the concurrent run with a connection pool of the size of the executor
\* ------------------------------------------------------------------------
\* DB_MAX_CONNECTIONS is set to max_workers: one connection per thread
InitPool ==
    /\ tz = 0
    /\ table = "klines"
    /\ refused = {}
    /\ partitions = {}
    /\ stored = {}
    /\ dropsLeft = MaxDrops
    /\ queue \in SeqsUpTo(SeqsUpTo(RecordsRace, MaxRows), MaxFiles)
    /\ InitWorkers
    /\ NoBulkImport
    /\ NoBulkProvisioning
    /\ NoDirectoryRun
    /\ maxconn = max_workers

SpecPool == InitPool /\ [][Next]_vars

\* ------------------------------------------------------------------------
\* EnhancedBulkImportManager: directories processed in parallel, their
\* results added to self.stats
\* ------------------------------------------------------------------------
MaxBulkDirs == 2     \* directories given to _process_directories_parallel
MaxBulkFiles == 2    \* files of one directory

Dirs == 1 .. Len(all_directories)

\* what the manager's own steps leave alone
importerVars == <<tz, table, refused, maxconn, yearVars, dirEnv, checked_out,
                  partitions, stored, dropsLeft, queue, dirVars, workerVars>>

\* the directories _collect_period_directories found (each holds at least
\* one supported file), nothing processed yet
InitBulk ==
    /\ tz = 0
    /\ table = "klines"
    /\ refused = {}
    /\ maxconn = max_connections
    /\ partitions = {}
    /\ stored = {}
    /\ dropsLeft = 0
    /\ queue = <<>>
    /\ InitWorkers
    /\ NoBulkProvisioning
    /\ NoDirectoryRun
    /\ all_directories \in UNION {[1 .. n -> 1 .. MaxBulkFiles] : n \in 1 .. MaxBulkDirs}
    /\ bulk_max_workers \in 1 .. MaxBulkDirs
    /\ dirState = [d \in Dirs |-> "submitted"]
    /\ returned = [d \in Dirs |-> <<>>]
    /\ result = [d \in Dirs |-> NewResult]
    /\ stats = EmptyStats

\* what import_single_file does for one file: True or False by the count of
\* batch_insert_data, or an exception that leaves its own handler
FileOutcomes ==
    {IF reports_success(n) THEN "T" ELSE "F" : n \in 0 .. MaxRows} \cup {"raise"}

\* the body of the file loop of enhanced_import_directory
after_file(res, file_path, outcome) ==
    IF outcome = "T"
    THEN [res EXCEPT !.successful_files = @ + 1]
    ELSE IF outcome = "F"
         THEN [res EXCEPT !.failed_files = @ + 1,
                          !.failed_files_list = Append(@, file_path)]
         ELSE [res EXCEPT !.failed_files = @ + 1,
                          !.failed_files_list = Append(@, file_path),
                          !.success = FALSE]

\* the as_completed loop's handling of one directory's result
add_result(st, res) ==
    IF res.success
    THEN [st EXCEPT !.successful_files = @ + res.successful_files]
    ELSE [st EXCEPT !.failed_files = @ + res.failed_files,
                    !.failed_files_list = @ \o res.failed_files_list]

\* an executor thread takes the next submitted directory
ProcessSingleDirectoryStart(d) ==
    /\ d \in Dirs
    /\ dirState[d] = "submitted"
    /\ \A e \in Dirs : e < d => dirState[e] # "submitted"
    /\ Cardinality({e \in Dirs : dirState[e] = "running"}) < bulk_max_workers
    /\ dirState' = [dirState EXCEPT ![d] = "running"]
    /\ result' = [result EXCEPT ![d] = NewResult]
    /\ UNCHANGED <<all_directories, bulk_max_workers, returned, stats, importerVars>>

\* import_single_file on the next file of the directory
EnhancedImportFile(d) ==
    /\ d \in Dirs
    /\ dirState[d] = "running"
    /\ Len(returned[d]) < all_directories[d]
    /\ \E outcome \in FileOutcomes :
          /\ returned' = [returned EXCEPT ![d] = Append(@, outcome)]
          /\ result' = [result EXCEPT
                           ![d] = after_file(@, <<d, Len(returned[d]) + 1>>, outcome)]
    /\ UNCHANGED <<all_directories, bulk_max_workers, dirState, stats, importerVars>>

\* _process_single_directory returns result
ProcessSingleDirectoryReturn(d) ==
    /\ d \in Dirs
    /\ dirState[d] = "running"
    /\ Len(returned[d]) = all_directories[d]
    /\ dirState' = [dirState EXCEPT ![d] = "done"]
    /\ UNCHANGED <<all_directories, bulk_max_workers, returned, result, stats, importerVars>>

\* the as_completed loop reads one finished future; future.result() does
\* not raise, _process_single_directory catches every Exception
CollectDirectoryResult(d) ==
    /\ d \in Dirs
    /\ dirState[d] = "done"
    /\ dirState' = [dirState EXCEPT ![d] = "collected"]
    /\ stats' = add_result(stats, result[d])
    /\ UNCHANGED <<all_directories, bulk_max_workers, returned, result, importerVars>>

NextBulk ==
    \E d \in 1 .. MaxBulkDirs :
        \/ ProcessSingleDirectoryStart(d)
        \/ EnhancedImportFile(d)
        \/ ProcessSingleDirectoryReturn(d)
        \/ CollectDirectoryResult(d)

SpecBulk == InitBulk /\ [][NextBulk]_vars

\* ------------------------------------------------------------------------
\* Properties
\* ------------------------------------------------------------------------
Keys(S) == {RowKey(q) : q \in S}

KeyOf(r) == RowKey(ToRecord(r))

\* the event times auto_create_partitions_for_data accepts
ValidTs(t) == 0 < t /\ t <= MaxValidTs

CalendarMonths == {<<y, m>> : y \in {1969, 1970, 2023, 2024, 2025}, m \in 1 .. 12}

\* the (year, month) whose partition bounds contain the instant
CoveringMonth(t, tzOff) ==
    CHOOSE ym \in CalendarMonths :
        LET b == get_month_bounds_ms(ym[1], ym[2], tzOff)
        IN  b[1] <= t /\ t < b[2]

\* the chunk that failed with "no partition of relation" and was provisioned again
FailedChunk(w) == chunk_of(df[w], idx[w])

\* a call that met a missing partition, provisioned the chunk's months again
\* with success, and has returned while every row of the chunk has a partition
Recovered(w) ==
    /\ pc[w] = "done"
    /\ phase[w] = "retry"
    /\ acOK[w] = "T"
    /\ \A i \in 1 .. Len(FailedChunk(w)) : Covering(FailedChunk(w)[i].ts.n) # {}

\* every key of the call's rows is already committed
AllKeysStored(w) ==
    /\ df[w] # <<>>
    /\ \A i \in 1 .. Len(df[w]) : KeyOf(df[w][i]) \in Keys(stored)

\* C1: create_monthly_partition returns True whenever the month's partition
\* exists when it returns, also when a concurrent worker created it first;
\* so it returns False only for a month the store refuses to create.
C1_RaceLoserReturnsTrue ==
    \A w \in Workers : cmpRet[w] = "F" => cur[w] \in refused

C3_RetrySucceeds ==
    \A w \in Workers : Recovered(w) => ret[w] > 0

C6_IdempotentWrite ==
    /\ [](\A w \in Workers :
            AllKeysStored(w) => (pc[w] \notin {"raise", "retry_insert"}
                                 /\ phase[w] = "pre"))
    /\ [][\A w \in Workers :
            (pc[w] = "insert" /\ pc'[w] = "done" /\ AllKeysStored(w)) =>
                (ret'[w] > 0 /\ stored' = stored)
         ]_vars

\* a call has returned success although a row of it met a stored row with
\* the same key and another value, which is still the stored one
C6_Witness ==
    \E w \in Workers :
        /\ pc[w] = "done" /\ ret[w] > 0 /\ AllKeysStored(w)
        /\ \E i \in 1 .. Len(df[w]) : ToRecord(df[w][i]) \notin stored

MonthsOf(w) == {CoveringMonth(df[w][i].ts.n, tz) : i \in 1 .. Len(df[w])}

Unparseable(w) == {i \in 1 .. Len(raw[w]) : raw[w][i].ts.tag # "num"}

\* C9: a record whose event time is missing or cannot be parsed is rejected
\* alone: the other records of the file are normalized and written, and no
\* row with a substitute event time is written for it.
C9_RowLevelRejection ==
    \A w \in Workers :
        (/\ pc[w] = "done"
         /\ Cardinality(Unparseable(w)) = 1
         /\ Len(raw[w]) = 2
         /\ \A i \in 1 .. 2 : i \notin Unparseable(w) => ValidTs(raw[w][i].ts.n)) =>
            /\ Len(df[w]) = 1
            /\ \A i \in 1 .. 2 : i \notin Unparseable(w) =>
                  raw[w][i].ts.n \in Keys(stored)

\* C10: a record that is kept has every missing or unreadable optional
\* numeric field set to 0.0; it is not dropped.
C10_FillPolicy ==
    \A w \in Workers :
        (/\ pc[w] # "idle"
         /\ \A i \in 1 .. Len(raw[w]) : raw[w][i].ts.tag = "num") =>
            /\ Len(df[w]) = Len(raw[w])
            /\ \A i \in 1 .. Len(raw[w]) :
                  df[w][i].v = IF raw[w][i].v.tag = "num" THEN raw[w][i].v
                               ELSE Num(0)

\* a record with an unreadable numeric field has been written with 0 in it
C10_Witness ==
    \E w \in Workers :
        /\ pc[w] = "done" /\ ret[w] > 0
        /\ \E i \in 1 .. Len(raw[w]) :
              /\ raw[w][i].v.tag # "num"
              /\ [ts |-> raw[w][i].ts.n, v |-> 0] \in stored

\* C11: for each chunk the insert is issued at most twice, the second time
\* only after the chunk's months were provisioned again with success; a
\* failed second attempt ends the call, which returns 0 and issues nothing
\* more.
C11_AtMostOneRetry ==
    /\ [](\A w \in Workers :
            /\ attempts[w] <= 2
            /\ attempts[w] = 2 => (pc[w] \in {"raise", "done"} /\ ret[w] = 0))
    /\ [][\A w \in Workers :
            /\ (attempts'[w] > attempts[w] /\ attempts[w] >= 1) =>
                   (pc[w] = "retry_insert" /\ acOK[w] = "T" /\ pc'[w] = "raise")
            /\ (pc[w] = "raise") => (pc'[w] \in {"raise", "done"})
         ]_vars

\* a chunk was submitted twice, the second time after a successful
\* re-provisioning, and the call has returned 0
C11_Witness ==
    \E w \in Workers :
        /\ pc[w] = "done" /\ attempts[w] = 2 /\ ret[w] = 0
        /\ acOK[w] = "T" /\ Covering(FailedChunk(w)[1].ts.n) # {}

\* the step in which worker w calls create_monthly_partition for a month
CallsCreateMonthly(w) ==
    /\ pc[w] = "ensure"
    /\ (todo'[w] # todo[w] \/ pc'[w] = "create")

\* the catalog holds a partition of that name
InCatalog(ym) ==
    \E p \in partitions : p.name = partition_name(table, ym[1], ym[2])

\* C12: when the month's partition is in the catalog, create_monthly_partition
\* returns True without issuing a CREATE TABLE and leaves the partitions as
\* they are, however often it is called.
C12_ExistingPartitionCheapPath ==
    [][\A w \in Workers :
          (/\ CallsCreateMonthly(w)
           /\ ~PoolExhausted
           /\ InCatalog(cur'[w])) =>
              /\ cmpRet'[w] = "T"
              /\ succ'[w] = succ[w] + 1
              /\ pc'[w] = "ensure"
              /\ partitions' = partitions
      ]_vars

\* create_monthly_partition has returned True for a month that the store
\* would refuse to create: the partition was there before the call
C12_Witness ==
    \E w \in Workers :
        /\ pc[w] = "ensure" /\ cmpRet[w] = "T" /\ cur[w] \in refused
        /\ InCatalog(cur[w])

\* the first instant of the month at 00:00 UTC
UtcMonthStart(y, m) == DaysFromCivil(y, m) * 24

\* C13: for the year and each month create_year_partitions passes on,
\* get_month_bounds_ms returns (start, end) with end > start, end - start the
\* exact length of the month, start the first instant of the month at 00:00
\* UTC, and for December end the first instant of January of year + 1.
C13_BoundsAreUtcMonths ==
    ypc = "loop" =>
        LET b == get_month_bounds_ms(yyear, ymonth, tz)
        IN  /\ b[2] > b[1]
            /\ b[2] - b[1] = DaysInMonth(yyear, ymonth) * 24
            /\ b[1] = UtcMonthStart(yyear, ymonth)
            /\ ymonth = 12 => b[2] = UtcMonthStart(yyear + 1, 1)

\* the partitions of a parent table
PartitionsOf(tbl) == {p \in partitions : p.name[1] = tbl}

\* the months of which the catalog holds the partition of a table
MonthsInCatalog(tbl) ==
    LET names == {p.name : p \in partitions}
    IN  {ym \in CalendarMonths : partition_name(tbl, ym[1], ym[2]) \in names}

MonthIndex(ym) == 12 * ym[1] + ym[2]

\* the months of the table's partitions are a range without a hole
ContiguousRange(tbl) ==
    LET I == {MonthIndex(ym) : ym \in MonthsInCatalog(tbl)}
    IN  \A i, j \in I : \A k \in i .. j : k \in I

\* C14: when the months provisioned for a table through
\* create_monthly_partition are a contiguous range, no two of its partitions
\* overlap and each partition but the first starts where another one ends,
\* December to January included.
C14_NoOverlapNoGap ==
    \A t \in PARTITIONED_TABLES :
        ContiguousRange(t) =>
            /\ \A p, q \in PartitionsOf(t) :
                  p # q => (p.hi <= q.lo \/ q.hi <= p.lo)
            /\ \A p \in PartitionsOf(t) :
                  \/ \A q \in PartitionsOf(t) : p.lo <= q.lo
                  \/ \E q \in PartitionsOf(t) : q.hi = p.lo

\* two years in a row have been provisioned for klines
C14_Witness ==
    /\ ypc = "return"
    /\ Cardinality(PartitionsOf("klines")) = 24
    /\ ContiguousRange("klines")
    /\ \E p, q \in PartitionsOf("klines") :
          /\ p.name = partition_name("klines", 2023, 12)
          /\ q.name = partition_name("klines", 2024, 1)
          /\ p.hi = q.lo

\* C15: for every row with a valid event time ts that is about to be
\* inserted, the (year, month) the provisioner derives from ts has bounds
\* with start <= ts < end, and the partition of that month's name, also one
\* made earlier with UTC-aligned bounds, contains ts.
C15_RowInsideEnsuredPartition ==
    \A w \in Workers :
        pc[w] \in {"insert", "retry_insert"} =>
            \A i \in 1 .. Len(df[w]) :
                LET ts == df[w][i].ts.n
                    ym == LocalYearMonth(ts, tz)
                    b == get_month_bounds_ms(ym[1], ym[2], tz)
                IN  ValidTs(ts) =>
                        /\ b[1] <= ts /\ ts < b[2]
                        /\ \A p \in partitions :
                              p.name = partition_name(table, ym[1], ym[2]) =>
                                  (p.lo <= ts /\ ts < p.hi)


\* the futures of the files whose import_single_file returned False
FailedFutures(F) == {fut \in F : ~fut.success}

\* how often file f is listed in failed_files
TimesListed(f) == Cardinality({i \in 1 .. Len(failed_files) : failed_files[i] = f})

\* C16: in import_directory a file whose import fails is counted as one
\* failed result and listed in failed_files when its future is handled; the
\* run goes on: while it has not returned some step can be taken, and when it
\* returns every enumerated file has been imported to its end and handled.
C16_FailureIsolation ==
    /\ \A fut \in FailedFutures(collected) : TimesListed(fut.file) >= 1
    /\ failed_imports = Cardinality(FailedFutures(collected))
    /\ dirpc \in {"scan", "run"} => ENABLED NextDir
    /\ dirpc = "returned" =>
          /\ \A k \in 1 .. Len(all_files) : \E fut \in collected : fut.slot = k
          /\ \A w \in Workers : pc[w] = "idle"
          /\ queue = <<>>

\* a run has returned with a failed file and an imported file
C16_Witness ==
    /\ dirpc = "returned"
    /\ failed_imports >= 1
    /\ successful_imports >= 1
    /\ stored # {}


\* the distinct files of the directory that match some pattern
MatchingFiles ==
    IF dir_exists THEN UNION {matches[k] : k \in 1 .. Len(matches)} ELSE {}

\* the imports of file f that have begun: those running and those finished
ImportsOf(f) ==
    Cardinality({w \in Workers : cfile[w] # 0 /\ all_files[cfile[w]] = f})
        + Cardinality({fut \in done_futures : fut.file = f})

\* C17: import_directory submits every distinct matching file once, also a
\* file that matches several patterns, and no file is imported twice; at
\* every moment successful_imports + failed_imports is the number of results
\* the loop has handled, none of them of an unfinished file; at the return
\* the sum is the number of distinct matching files and failed_files holds
\* the failed files, each once, and nothing else.
C17_SummaryAccounting ==
    /\ dirpc \in {"run", "returned"} =>
          /\ {all_files[i] : i \in 1 .. Len(all_files)} = MatchingFiles
          /\ Len(all_files) = Cardinality(MatchingFiles)
    /\ \A f \in FileIds : ImportsOf(f) <= 1
    /\ successful_imports + failed_imports = Cardinality(collected)
    /\ collected \subseteq done_futures
    /\ Cardinality(done_futures) + Len(queue)
          + Cardinality({w \in Workers : cfile[w] # 0}) = Len(all_files)
    /\ dirpc = "returned" =>
          /\ successful_imports + failed_imports = Cardinality(MatchingFiles)
          /\ \A f \in MatchingFiles : ImportsOf(f) = 1
          /\ \A f \in FileIds :
                TimesListed(f) =
                   IF \E fut \in FailedFutures(collected) : fut.file = f
                   THEN 1 ELSE 0

\* a run over two files, one of them found by both patterns, has returned
\* with a failed file
C17_Witness ==
    /\ dirpc = "returned"
    /\ matches[1] \cap matches[2] # {}
    /\ Len(all_files) = MaxDirFiles
    /\ failed_imports >= 1


\* the import_single_file calls that are running
InFlight == {w \in Workers : pc[w] # "idle"}

\* C18: at every moment of an import_directory run the number of files
\* being imported is at most max_workers.
C18_BoundedWorkerPool ==
    dirpc # "off" => Cardinality(InFlight) <= max_workers

\* one thread only: it imports a file while another file waits in the
\* executor's queue
C18_Witness ==
    /\ dirpc = "run"
    /\ max_workers < Cardinality(Workers)
    /\ Cardinality(InFlight) = max_workers
    /\ queue # <<>>


\* the directory does not exist, or no file of it matches a pattern
NothingToImport == ~dir_exists \/ MatchingFiles = {}

\* C19: when the directory does not exist or no file matches, import_directory
\* hands no file to a worker, writes nothing to the store (no row, no
\* partition, no transaction), and returns the summary of zero files: from
\* the scan its only step is the return, and the summary stays 0, 0, [].
C19_EnumerationFailure ==
    NothingToImport =>
        /\ dirpc \in {"scan", "returned"}
        /\ dirpc = "scan" => ENABLED ScanDirectory
        /\ queue = <<>>
        /\ NoFutures
        /\ \A w \in Workers : pc[w] = "idle" /\ tx[w] = "none"
        /\ stored = {}
        /\ partitions = {}
        /\ ZeroSummary

\* import_directory has returned for a directory that does not exist
C19_Witness ==
    /\ ~dir_exists
    /\ dirpc = "returned"

\* import_directory has returned for a directory whose files match no pattern
C19_WitnessNoMatch ==
    /\ dir_exists
    /\ Cardinality(dirFiles) = MaxDirFiles
    /\ MatchingFiles = {}
    /\ dirpc = "returned"


\* worker w is at a call of connection_pool.getconn(): the catalog query of
\* partition_exists, or the get_connection that opens the insert block
AtGetconn(w) ==
    /\ pc[w] = "ensure"
    /\ todo[w] # {} \/ phase[w] = "pre"

\* C20: with a pool as large as the number of worker threads, a worker that
\* asks the pool for a connection gets one: the pool is never exhausted at a
\* getconn, also not at the getconn of the partition check that a worker
\* makes from inside its insert block after a missing-partition error.
C20_NoWorkerStarved ==
    maxconn >= max_workers =>
        \A w \in Workers : AtGetconn(w) => ~PoolExhausted


\* C21: no transaction spans DDL and DML.  While a worker checks for or
\* creates a partition its own insert transaction is not open and holds no
\* uncommitted row; the creation is a transaction of its own: the step that
\* creates the partition is taken only when no insert lock is held on the
\* parent table and it changes no insert transaction and no stored row.
C21_NoTxSpansDdlAndDml ==
    /\ [](\A w \in Workers :
            pc[w] \in {"ensure", "create"} => (tx[w] # "open" /\ pending[w] = {}))
    /\ [][\A w \in Workers :
            (pc[w] = "create" /\ pc'[w] # "create") =>
                /\ ~ParentLocked
                /\ tx' = tx
                /\ pending' = pending
                /\ stored' = stored]_vars

\* a worker creates a partition from inside its insert block, after an
\* earlier chunk of the same call had been inserted
C21_Witness ==
    \E w \in Workers :
        /\ pc[w] = "create"
        /\ phase[w] = "retry"
        /\ inserted[w] > 0
        /\ tx[w] = "aborted"


\* every file has been imported and every worker is idle
AllDone == queue = <<>> /\ \A w \in Workers : pc[w] = "idle"

RowsOf(f) == {ToRecord(f[i]) : i \in 1 .. Len(f)}

RECURSIVE InsertInto(_, _, _)
\* the table S after INSERT .. ON CONFLICT DO NOTHING of the rows f[i ..]
InsertInto(S, f, i) ==
    IF i > Len(f) THEN S
    ELSE LET r == ToRecord(f[i])
         IN  IF \E q \in S : RowKey(q) = RowKey(r)
             THEN InsertInto(S, f, i + 1)
             ELSE InsertInto(S \cup {r}, f, i + 1)

\* the table after batch A and then batch B were written to the empty table
OneAfterTheOther(A, B) == InsertInto(InsertInto({}, A, 1), B, 1)

\* two batches, all rows in one month, no month refused, nothing dropped
TwoBatchesOnePartition ==
    /\ Len(batches) = 2
    /\ refused = {}
    /\ dropsLeft = MaxDrops
    /\ \E ym \in CalendarMonths :
         \A k \in 1 .. 2 : \A i \in 1 .. Len(batches[k]) :
            LocalYearMonth(batches[k][i].ts.n, tz) = ym

StartsFile(w) == pc[w] = "idle" /\ pc'[w] # "idle"

\* C23: import_directory can stop the dispatch of new files, for example after
\* failures: once a failed file has been counted, no file that had not been
\* started is started, while the files in flight run to their end and are
\* counted.
C23_StoppableDispatch ==
    [][/\ failed_imports > 0 => \A w \in Workers : ~StartsFile(w)
       /\ \A w \in Workers :
            (pc[w] # "idle" /\ pc'[w] = "idle") =>
                \E fut \in done_futures' : fut.slot = cfile[w]
      ]_vars

\* what the code does instead: while files wait in the executor's queue,
\* every idle thread of the executor can take the next one, whatever the
\* results so far
DispatchNeverStops ==
    (dirpc = "run" /\ queue # <<>>) =>
        \A w \in Workers :
            (pc[w] = "idle" /\ thread_exists(w)) => ENABLED StartImport(w)


\* C24: a batch_insert_data call is all or nothing.  While the call runs none
\* of the rows it has submitted is in the table; the one step that puts them
\* there is the commit after the last chunk, which returns the positive
\* count with every row's key stored; a call that fails, on a missing
\* partition or on any other error, ends rolled back, returns 0 and leaves
\* the table as it was, the rows of its earlier chunks not stored.
C24_AllOrNothing ==
    /\ [](\A w \in Workers : Keys(pending[w]) \cap Keys(stored) = {})
    /\ [][\A w \in Workers :
            /\ (pc[w] = "insert" /\ pc'[w] = "done") =>
                  /\ idx[w] > Len(df[w])
                  /\ ret'[w] = inserted[w]
                  /\ ret'[w] > 0
                  /\ stored' = stored \cup pending[w]
                  /\ Keys(RowsOf(df[w])) \subseteq Keys(stored')
            /\ (pc[w] = "raise" /\ pc'[w] = "done") =>
                  /\ ret'[w] = 0
                  /\ pending[w] = {}
                  /\ tx'[w] = "none"
                  /\ stored' = stored
            /\ (stored' # stored /\ pending'[w] # pending[w]) =>
                  (pc[w] = "insert" /\ pc'[w] = "done")]_vars

\* a call whose first chunk was inserted lost a store deadlock on a later
\* chunk and returned 0; the row of its first chunk is not in the table
C24_Witness ==
    \E w \in Workers :
        /\ pc[w] = "done"
        /\ ret[w] = 0
        /\ phase[w] = "pre"
        /\ inserted[w] > 0
        /\ KeyOf(df[w][1]) \notin Keys(stored)


\* the months whose partitions the k-th batch needs
MonthsOfBatch(k) ==
    {LocalYearMonth(batches[k][i].ts.n, tz) : i \in 1 .. Len(batches[k])}

\* two batches that need the same partition, which does not exist at the
\* start; no month is refused by the store and nothing is dropped
SameMissingPartition ==
    /\ Len(batches) = 2
    /\ MonthsOfBatch(1) \cap MonthsOfBatch(2) # {}
    /\ refused = {}
    /\ dropsLeft = MaxDrops

\* worker w's batch_insert_data returns
Returns(w) == pc[w] \in {"insert", "raise", "ensure"} /\ pc'[w] = "done"

\* C25: when two workers write batches that need the same missing partition,
\* each call returns a positive count and leaves every row of its batch
\* stored, although one worker's partition creation loses the race.
C25_RaceTolerance ==
    [][\A w \in Workers :
          (SameMissingPartition /\ Returns(w)) =>
              /\ ret'[w] > 0
              /\ Keys(RowsOf(df[w])) \subseteq Keys(stored')]_vars

\* the part of C25 that the code keeps: a call that met no store deadlock
\* returns a positive count with its rows stored, also after its
\* create_monthly_partition lost the race and returned False
RaceToleratedWithoutDeadlock ==
    [][\A w \in Workers :
          (SameMissingPartition /\ Returns(w) /\ attempts[w] = 0) =>
              /\ ret'[w] > 0
              /\ Keys(RowsOf(df[w])) \subseteq Keys(stored')]_vars

\* a call returns a positive count after its provisioning lost the race
RaceLoserWrites ==
    \E w \in Workers :
        /\ SameMissingPartition
        /\ pc[w] = "done"
        /\ ret[w] > 0
        /\ acOK[w] = "F"


\* C26: under fair scheduling every call that a worker has begun returns, also
\* a call that re-provisions a partition from inside its insert block, and
\* import_directory returns its summary.
C26_WriteTerminates ==
    /\ \A w \in Workers : (pc[w] # "idle") ~> (pc[w] = "idle")
    /\ <>(dirpc = "returned")

\* a call that re-provisioned a partition from inside its insert block, an
\* earlier chunk inserted on the first connection, has returned
C26_Witness ==
    \E w \in Workers :
        /\ pc[w] = "done"
        /\ phase[w] = "retry"
        /\ inserted[w] > 0
        /\ ensured[w] # {}


RECURSIVE SumCheckedOut(_)
\* the connections that the workers of S hold
SumCheckedOut(S) ==
    IF S = {} THEN 0
    ELSE LET w == CHOOSE x \in S : TRUE
         IN  checked_out[w] + SumCheckedOut(S \ {w})

\* C27: every connection taken from the pool is given back when the block
\* that took it ends, by a return or by an exception, rolled back before it
\* is given back after an exception.  A worker holds one connection inside
\* its insert block and one more inside a partition creation, and none
\* anywhere else; the connections out never exceed the pool; when every
\* worker is idle none is out.
C27_ConnectionConservation ==
    /\ [](\A w \in Workers :
            checked_out[w] = (IF HoldsInsertConn(w) THEN 1 ELSE 0)
                               + (IF pc[w] = "create" THEN 1 ELSE 0))
    /\ [](SumCheckedOut(Workers) <= maxconn)
    /\ []((\A w \in Workers : pc[w] \in {"idle", "done"}) =>
            SumCheckedOut(Workers) = 0)
    /\ [][\A w \in Workers :
            (pc[w] = "raise" /\ pc'[w] = "done") =>
                (tx'[w] = "none" /\ checked_out'[w] = checked_out[w] - 1)]_vars

\* both workers have returned, one after a failed insert and a partition
\* creation inside its insert block, and no connection is out
C27_Witness ==
    /\ \A w \in Workers : pc[w] \in {"idle", "done"}
    /\ \E w \in Workers :
          pc[w] = "done" /\ phase[w] = "retry" /\ ret[w] = 0 /\ cmpRet[w] # "-"
    /\ SumCheckedOut(Workers) = 0


\* worker w's create_monthly_partition returns to the loop of
\* auto_create_partitions_for_data
MonthlyReturns(w) == pc[w] \in {"ensure", "create"} /\ todo'[w] # todo[w]

\* worker w's auto_create_partitions_for_data returns
AutoCreateReturns(w) ==
    pc[w] = "ensure" /\ todo[w] = {} /\ pc'[w] # "ensure"

\* C28: create_monthly_partition returns True only when the partition named
\* for the month is in the catalog as it returns (found by the check or
\* created and committed by the call); every failure gives False and the
\* loop goes on, no exception reaches the caller; and
\* auto_create_partitions_for_data returns True for a batch with a valid
\* event time only when every distinct month of the batch was handled and
\* create_monthly_partition returned True for each.
C28_ProvisioningSound ==
    [][\A w \in Workers :
          /\ MonthlyReturns(w) =>
                /\ pc'[w] = "ensure"
                /\ cmpRet'[w] \in {"T", "F"}
                /\ cmpRet'[w] = "T" =>
                      /\ \E p \in partitions' :
                            p.name = partition_name(table, cur'[w][1], cur'[w][2])
                      /\ succ'[w] = succ[w] + 1
                /\ cmpRet'[w] = "F" => succ'[w] = succ[w]
          /\ (AutoCreateReturns(w) /\ want[w] > 0 /\ acOK'[w] = "T") =>
                /\ succ[w] = want[w]
                /\ want[w] =
                     Cardinality(unique_months(IF phase[w] = "pre" THEN df[w]
                                               ELSE chunk_of(df[w], idx[w]), tz))
                /\ unique_months(IF phase[w] = "pre" THEN df[w]
                                 ELSE chunk_of(df[w], idx[w]), tz)
                      \subseteq ensured[w]
      ]_vars

\* auto_create_partitions_for_data has returned False for a batch of two
\* months: one was provisioned, the store refused the other
C28_Witness ==
    \E w \in Workers :
        /\ acOK[w] = "F"
        /\ want[w] = 2
        /\ succ[w] = 1
        /\ cmpRet[w] = "F"
        /\ cur[w] \in refused


\* the future of the file that worker w has just finished
FutureOf(w) == CHOOSE fut \in done_futures' \ done_futures : fut.slot = cfile[w]

\* C29: import_single_file reports success exactly when batch_insert_data
\* returned a count above 0.  The count is the number of rows submitted: a
\* file whose keys are all stored already is a success and leaves the table
\* as it was; a file whose write was rolled back is reported as failed.
C29_FileOutcomeRule ==
    [][\A w \in Workers :
          /\ (dirpc # "off" /\ pc[w] = "done" /\ pc'[w] = "idle") =>
                /\ \E fut \in done_futures' \ done_futures : fut.slot = cfile[w]
                /\ FutureOf(w).success <=> ret[w] > 0
          /\ (pc[w] = "insert" /\ pc'[w] = "done" /\ AllKeysStored(w)) =>
                /\ ret'[w] = Len(df[w])
                /\ ret'[w] > 0
                /\ stored' = stored
          /\ (pc[w] = "raise" /\ pc'[w] = "done") =>
                /\ ret'[w] = 0
                /\ stored' = stored
      ]_vars

\* a file is reported as a success although none of its rows is in the
\* table: every key of it was stored before, with the other file's values
C29_Witness ==
    \E fut \in done_futures :
        /\ fut.success
        /\ RowsOf(FileContent(fut.file)) \cap stored = {}
        /\ Keys(RowsOf(FileContent(fut.file))) \subseteq Keys(stored)


\* _process_directories_parallel has returned
BulkFinished == \A d \in Dirs : dirState[d] = "collected"

RECURSIVE FilesProcessedUpTo(_)
FilesProcessedUpTo(d) ==
    IF d = 0 THEN 0 ELSE Len(returned[d]) + FilesProcessedUpTo(d - 1)

\* the files import_single_file was called for, over all directories
FilesProcessed == FilesProcessedUpTo(Len(all_directories))

\* the files for which import_single_file returned False or raised
FailedFiles ==
    {f \in (1 .. MaxBulkDirs) \X (1 .. MaxBulkFiles) :
        /\ f[1] \in Dirs
        /\ f[2] <= Len(returned[f[1]])
        /\ returned[f[1]][f[2]] # "T"}

ListedFiles(list) == {list[i] : i \in 1 .. Len(list)}

\* C30: once _process_directories_parallel has processed the directories,
\* stats['successful_files'] + stats['failed_files'] is the number of files
\* processed over all directories, and stats['failed_files_list'] holds
\* every file whose import_single_file returned False or raised, however
\* successes and failures are mixed within a directory.
C30_AggregatedStatistics ==
    BulkFinished =>
        /\ stats.successful_files + stats.failed_files = FilesProcessed
        /\ FailedFiles \subseteq ListedFiles(stats.failed_files_list)

\* what self.stats does hold at the end: the successes of the directories
\* in which no import raised, the failures of the directories in which one
\* did
StatsAsCollected ==
    BulkFinished =>
        /\ stats.successful_files =
              Cardinality({f \in (1 .. MaxBulkDirs) \X (1 .. MaxBulkFiles) :
                              /\ f[1] \in Dirs
                              /\ f[2] <= Len(returned[f[1]])
                              /\ returned[f[1]][f[2]] = "T"
                              /\ result[f[1]].success})
        /\ ListedFiles(stats.failed_files_list) =
              {f \in FailedFiles : ~result[f[1]].success}
        /\ stats.failed_files = Len(stats.failed_files_list)

\* a directory with a file that returned False and none that raised has
\* been added to the statistics
FailureInSuccessfulDirectory ==
    \E d \in Dirs :
        /\ dirState[d] = "collected"
        /\ result[d].success
        /\ result[d].failed_files > 0

=========================================================================
